---------------------------- MODULE Spec2Model ----------------------------
(***************************************************************************)
(* Model of the Axanet client-record store (src/axanet_manager.py).        *)
(*                                                                         *)
(* Strings are sequences of one-character strings, so that filename        *)
(* derivation, lowercasing, substring search and the lexicographic order   *)
(* of ISO timestamps are computed the way the Python code computes them.   *)
(* The index is an insertion-ordered dict, modelled as a sequence of       *)
(* entries; the clients directory is a function from the filenames that    *)
(* exist to the JSON document each one holds.                              *)
(***************************************************************************)
EXTENDS Integers, Sequences, FiniteSets, TLC

VARIABLES
    index,      \* data/index.json: the dict name -> filename, in insertion order
    files,      \* data/clients/: filename -> the record the file holds
    clock,      \* the instant datetime.now() last returned
    call,       \* the command the running process executed, the name or
                \* query it was given and what it returned (for a delete,
                \* also whether os.remove found no file); Idle between
                \* two runs
    createLog,  \* history variable: the successful creates, in order, each
                \* with the created_at it wrote, until a client is deleted
    procs       \* the invocations of create that run at the same time, each
                \* a process of its own: where it is in create_client and
                \* the index it loaded (specification SpecConc only)

vars == <<index, files, clock, call, createLog, procs>>

---------------------------------------------------------------------------
(* Bounds of the model.                                                    *)

\* Last tick the clock reaches; from then on datetime.now() stays put.
MaxClock == 1

\* Most history entries the record files of the store may hold in total.
MaxEntries == 2

---------------------------------------------------------------------------
(* Characters and strings.                                                 *)

UpperCase == <<"A","B","C","D","E","F","G","H","I","J","K","L","M",
               "N","O","P","Q","R","S","T","U","V","W","X","Y","Z">>

LowerCase == <<"a","b","c","d","e","f","g","h","i","j","k","l","m",
               "n","o","p","q","r","s","t","u","v","w","x","y","z">>

Digits == <<"0","1","2","3","4","5","6","7","8","9">>

Range(s) == {s[i] : i \in DOMAIN s}

\* str.isalnum() of one character
isalnum(c) == c \in Range(UpperCase) \cup Range(LowerCase) \cup Range(Digits)

\* str.lower() of one character
LowerChar(c) ==
    IF \E i \in DOMAIN UpperCase : UpperCase[i] = c
    THEN LowerCase[CHOOSE i \in DOMAIN UpperCase : UpperCase[i] = c]
    ELSE c

\* The characters of the strings the model handles
Alphabet ==
    Range(UpperCase) \cup Range(LowerCase) \cup Range(Digits)
    \cup {" ", "-", "_", ".", "!"}

\* LowerChar, tabulated
LowerTable == [c \in Alphabet |-> LowerChar(c)]

\* str.lower()
lower(s) == [i \in DOMAIN s |-> LowerTable[s[i]]]

\* str.strip(): drop leading and trailing whitespace
RECURSIVE strip(_)
strip(s) ==
    IF s = <<>> THEN s
    ELSE IF Head(s) = " " THEN strip(Tail(s))
    ELSE IF s[Len(s)] = " " THEN strip(SubSeq(s, 1, Len(s) - 1))
    ELSE s

\* str.replace(old, new) for single characters
replace(s, old, new) == [i \in DOMAIN s |-> IF s[i] = old THEN new ELSE s[i]]

\* The Python operator `q in s` on strings (the empty string is in every string)
StrIn(q, s) ==
    \E i \in 1..(Len(s) - Len(q) + 1) : SubSeq(s, i, i + Len(q) - 1) = q

\* Code points of the characters that occur in a timestamp
Ord == [c \in Range(Digits) \cup {"."} |->
           IF c = "." THEN 46
           ELSE 48 + (CHOOSE d \in 0..9 : Digits[d + 1] = c)]

\* Python's < on strings: lexicographic by code point, a proper prefix is smaller
RECURSIVE StrLess(_, _)
StrLess(a, b) ==
    IF b = <<>> THEN FALSE
    ELSE IF a = <<>> THEN TRUE
    ELSE IF Head(a) = Head(b) THEN StrLess(Tail(a), Tail(b))
    ELSE Ord[Head(a)] < Ord[Head(b)]

\* Python's None where a record (Optional[Dict]) is expected
None == [none |-> TRUE]

\* Python's None where a string is expected (`service: str = None`): a
\* sequence that is no string, since its one element is no character
NoneStr == <<"None">>

---------------------------------------------------------------------------
(* Inputs.                                                                 *)

Names == { <<"A","l">>, <<"a","l">>, <<"B"," ","o","."," ">> }

Services == { <<"W","e","b">>, <<"S","e","o">> }

Notes == { <<>>, <<"V","I","P">> }

\* The (service, notes) pairs create is called with
Orders == { <<<<"W","e","b">>, <<>>>>, <<<<"S","e","o">>, <<"V","I","P">>>> }

Queries == { <<>>, <<"E","B">>, <<"v","i">> }

---------------------------------------------------------------------------
(* Helpers of AxanetManager.                                               *)

\* _generate_filename
generate_filename(client_name) ==
    LET kept == SelectSeq(client_name,
                          LAMBDA c : isalnum(c) \/ c \in {" ", "-", "_"})
        safe_name == lower(replace(strip(kept), " ", "_"))
    IN  safe_name \o <<".","j","s","o","n">>

\* datetime.isoformat() of the instant `t` ticks (half seconds) after the
\* epoch of the model: a fixed-width seconds field, then the fraction
\* unless it is zero
isoformat(t) ==
    LET sec  == t \div 2
        frac == t % 2
    IN  <<Digits[(sec \div 10) + 1], Digits[(sec % 10) + 1]>>
        \o (IF frac = 0 THEN <<>> ELSE <<".", Digits[frac + 1]>>)

\* Mutant of InIndex: the name is looked up among the filenames
InIndexByFilename(idx, name) == \E i \in DOMAIN idx : idx[i].filename = name

\* `name in index`
InIndex(idx, name) == \E i \in DOMAIN idx : idx[i].name = name

\* Mutant of Lookup: the filename of the first entry, whatever the name
LookupFirst(idx, name) == idx[1].filename

\* `index[name]`
Lookup(idx, name) == idx[CHOOSE i \in DOMAIN idx : idx[i].name = name].filename

\* `index[name] = filename` for a name that is not a key yet
IndexPut(idx, name, filename) ==
    Append(idx, [name |-> name, filename |-> filename])

\* Mutant of IndexDel: the entries that share the key's filename go too
IndexDelByFilename(idx, name) ==
    LET filename == idx[CHOOSE i \in DOMAIN idx : idx[i].name = name].filename
    IN  SelectSeq(idx, LAMBDA e : e.filename # filename)

\* Mutant of IndexDel: the key is never removed
IndexDelNothing(idx, name) == idx

\* `del index[name]`
IndexDel(idx, name) == SelectSeq(idx, LAMBDA e : e.name # name)

\* _load_index: the persisted index file
load_index == index

\* What a file holds after a write that failed part-way: open(..., 'w')
\* truncated it and json.dump did not finish, so it does not parse
Corrupt == [corrupt |-> TRUE]

\* Mutant of load_client_data: a missing file loads as a blank record
load_client_data_or_blank(fs, filename) ==
    IF filename \in DOMAIN fs THEN fs[filename]
    ELSE [name |-> <<>>, service |-> <<>>, notes |-> <<>>,
          created_at |-> <<>>, updated_at |-> <<>>, history |-> <<>>]

\* _load_client_data: None for a missing file (FileNotFoundError) and for
\* one that does not parse (json.JSONDecodeError)
load_client_data(fs, filename) ==
    IF filename \in DOMAIN fs /\ fs[filename] # Corrupt
    THEN fs[filename] ELSE None

\* Mutant of save_client_data: the file is opened for exclusive creation, so
\* a file that exists keeps what it holds
save_client_data_exclusive(fs, filename, client_data) ==
    fs @@ (filename :> client_data)

\* _save_client_data
save_client_data(fs, filename, client_data) ==
    (filename :> client_data) @@ fs

\* os.remove, with FileNotFoundError passed over
remove(fs, filename) == [f \in (DOMAIN fs) \ {filename} |-> fs[f]]

\* The instants the successive datetime.now() calls of one operation may
\* return: the clock never runs backwards and may advance between calls.
Now(t) == { u \in t..(t + 1) : u <= MaxClock }

\* History entries held by all record files together (a file that does not
\* parse counts for one)
RECURSIVE TotalEntries(_)
TotalEntries(fs) ==
    IF DOMAIN fs = {} THEN 0
    ELSE LET f == CHOOSE g \in DOMAIN fs : TRUE
         IN  (IF fs[f] = Corrupt THEN 1 ELSE Len(fs[f].history))
             + TotalEntries(remove(fs, f))

\* No command is running: the state between two runs of the program
Idle == [op |-> "idle", arg |-> NoneStr, ret |-> None]

\* The processes that may run create at the same time
Procs == {"p", "q"}

\* A process that is not running
NotRunning ==
    [pc |-> "idle", name |-> NoneStr, service |-> NoneStr, notes |-> NoneStr,
     idx |-> <<>>, ret |-> FALSE]

\* createLog once a client has been deleted
Void == << [name |-> NoneStr, at |-> <<>>] >>

---------------------------------------------------------------------------
(* State after construction: _ensure_directories on an empty data dir.     *)

Init ==
    /\ index = <<>>
    /\ files = <<>>
    /\ clock = 0
    /\ call = Idle
    /\ createLog = <<>>
    /\ procs = [p \in Procs |-> NotRunning]

---------------------------------------------------------------------------
(* Operations.                                                             *)

create_client(name, service, notes) ==
    /\ call.op = "idle"
    /\ LET idx == load_index IN
       IF InIndex(idx, name)
       THEN /\ call' = [op |-> "create", arg |-> name, ret |-> FALSE]
            /\ UNCHANGED <<index, files, clock>>
       ELSE \E t1 \in Now(clock) : \E t2 \in Now(t1) : \E t3 \in Now(t2) :
            LET filename == generate_filename(name)
                client_data ==
                    [name |-> name,
                     service |-> service,
                     notes |-> notes,
                     created_at |-> isoformat(t1),
                     updated_at |-> isoformat(t2),
                     history |-> << [action |-> "created",
                                     service |-> service,
                                     notes |-> notes,
                                     timestamp |-> isoformat(t3)] >>]
            IN  /\ files' = save_client_data(files, filename, client_data)
                /\ TotalEntries(files') <= MaxEntries
                /\ index' = IndexPut(idx, name, filename)
                /\ clock' = t3
                /\ call' = [op |-> "create", arg |-> name, ret |-> TRUE]

\* Mutant of Differs: every supplied value counts as a change
DiffersWhenSupplied(value, stored) == value # NoneStr

\* `value is not None and value != client_data.get(field)`
Differs(value, stored) == value # NoneStr /\ value # stored

\* Mutant of UpdatedEntry: both fields are always written, supplied or not
UpdatedEntryBothFields(service, notes, timestamp) ==
    [action |-> "updated", timestamp |-> timestamp,
     service |-> service, notes |-> notes]

\* The history entry update_client builds
UpdatedEntry(service, notes, timestamp) ==
    [action |-> "updated", timestamp |-> timestamp]
    @@ (IF service # NoneStr THEN [service |-> service] ELSE <<>>)
    @@ (IF notes # NoneStr THEN [notes |-> notes] ELSE <<>>)

update_client(name, service, notes) ==
    /\ call.op = "idle"
    /\ LET idx == load_index
           this == [op |-> "update", arg |-> name]
       IN
       IF ~InIndex(idx, name)
       THEN /\ call' = this @@ [ret |-> FALSE]
            /\ UNCHANGED <<index, files, clock>>
       ELSE
       LET filename == Lookup(idx, name)
           client_data == load_client_data(files, filename)
       IN
       IF client_data = None
       THEN /\ call' = this @@ [ret |-> FALSE]
            /\ UNCHANGED <<index, files, clock>>
       ELSE
       LET setService == Differs(service, client_data.service)
           setNotes == Differs(notes, client_data.notes)
           updated == setService \/ setNotes
       IN
       IF ~updated
       THEN /\ call' = this @@ [ret |-> TRUE]
            /\ UNCHANGED <<index, files, clock>>
       ELSE /\ TotalEntries(files) < MaxEntries
            /\ \E t1 \in Now(clock) : \E t2 \in Now(t1) :
               LET new_data ==
                       [client_data EXCEPT
                          !.service = IF setService THEN service ELSE @,
                          !.notes = IF setNotes THEN notes ELSE @,
                          !.updated_at = isoformat(t1),
                          !.history = Append(@, UpdatedEntry(service, notes,
                                                             isoformat(t2)))]
               IN  /\ files' = save_client_data(files, filename, new_data)
                   /\ clock' = t2
                   /\ call' = this @@ [ret |-> TRUE]
                   /\ UNCHANGED index

\* Mutant of Consulted: the entry is inserted at the front of the history
ConsultedFirst(client_data, timestamp) ==
    [client_data EXCEPT
       !.history = << [action |-> "consulted",
                       timestamp |-> timestamp] >> \o @]

\* Mutant of Consulted: the consultation also bumps updated_at
ConsultedAndTouched(client_data, timestamp) ==
    [client_data EXCEPT
       !.updated_at = timestamp,
       !.history = Append(@, [action |-> "consulted",
                              timestamp |-> timestamp])]

\* The record consult_client writes back and returns
Consulted(client_data, timestamp) ==
    [client_data EXCEPT
       !.history = Append(@, [action |-> "consulted",
                              timestamp |-> timestamp])]

consult_client(name) ==
    /\ call.op = "idle"
    /\ LET idx == load_index
           this == [op |-> "consult", arg |-> name]
       IN
       IF ~InIndex(idx, name)
       THEN /\ call' = this @@ [ret |-> None]
            /\ UNCHANGED <<index, files, clock>>
       ELSE
       LET filename == Lookup(idx, name)
           client_data == load_client_data(files, filename)
       IN
       IF client_data = None
       THEN /\ call' = this @@ [ret |-> None]
            /\ UNCHANGED <<index, files, clock>>
       ELSE /\ TotalEntries(files) < MaxEntries
            /\ \E t \in Now(clock) :
               LET new_data == Consulted(client_data, isoformat(t))
               IN  /\ files' = save_client_data(files, filename, new_data)
                   /\ clock' = t
                   /\ call' = this @@ [ret |-> new_data]
                   /\ UNCHANGED index

\* The basic fields list_clients copies out of a record
Basic(client_data) ==
    [name |-> client_data.name,
     service |-> client_data.service,
     notes |-> client_data.notes,
     created_at |-> client_data.created_at,
     updated_at |-> client_data.updated_at]

\* list.sort(key=created_at, reverse=True): stable, so entries with equal
\* keys keep the order in which they were appended
RECURSIVE InsertDesc(_, _)
InsertDesc(sorted, x) ==
    IF sorted = <<>> THEN <<x>>
    ELSE IF StrLess(Head(sorted).created_at, x.created_at)
         THEN <<x>> \o sorted
         ELSE <<Head(sorted)>> \o InsertDesc(Tail(sorted), x)

RECURSIVE SortDesc(_)
SortDesc(clients) ==
    IF clients = <<>> THEN <<>>
    ELSE InsertDesc(SortDesc(SubSeq(clients, 1, Len(clients) - 1)),
                    clients[Len(clients)])

\* The loop of list_clients over index.items(), then the sort
RECURSIVE Collect(_, _)
Collect(idx, fs) ==
    IF idx = <<>> THEN <<>>
    ELSE LET client_data == load_client_data(fs, Head(idx).filename)
         IN  (IF client_data # None THEN <<Basic(client_data)>> ELSE <<>>)
             \o Collect(Tail(idx), fs)

ListClients(idx, fs) == SortDesc(Collect(idx, fs))

\* The result search_clients builds from list_clients()
RECURSIVE Matching(_, _)
Matching(all_clients, query_lower) ==
    IF all_clients = <<>> THEN <<>>
    ELSE LET client == Head(all_clients)
         IN  (IF \/ StrIn(query_lower, lower(client.name))
                 \/ StrIn(query_lower, lower(client.service))
                 \/ StrIn(query_lower, lower(client.notes))
              THEN <<client>> ELSE <<>>)
             \o Matching(Tail(all_clients), query_lower)

\* Mutant of SearchClients: the query is not lowercased
SearchClientsCaseSensitive(idx, fs, query) ==
    Matching(ListClients(idx, fs), query)

SearchClients(idx, fs, query) == Matching(ListClients(idx, fs), lower(query))

\* get_client_count
get_client_count == Len(load_index)

\* Mutant of list_clients: listing records a consultation in every record
list_clients_consulting ==
    /\ call.op = "idle"
    /\ call' = [op |-> "list", arg |-> NoneStr,
                ret |-> ListClients(load_index, files)]
    /\ files' = [f \in DOMAIN files |->
                    Consulted(files[f], isoformat(clock))]
    /\ UNCHANGED <<index, clock>>

list_clients ==
    /\ call.op = "idle"
    /\ call' = [op |-> "list", arg |-> NoneStr,
                ret |-> ListClients(load_index, files)]
    /\ UNCHANGED <<index, files, clock>>

search_clients(query) ==
    /\ call.op = "idle"
    /\ call' = [op |-> "search", arg |-> query,
                ret |-> SearchClients(load_index, files, query)]
    /\ UNCHANGED <<index, files, clock>>

\* Mutant of delete_client: the key is removed and the record file is left
delete_client_keeping_file(name) ==
    /\ call.op = "idle"
    /\ LET idx == load_index
           this == [op |-> "delete", arg |-> name]
       IN
       IF ~InIndex(idx, name)
       THEN /\ call' = this @@ [ret |-> FALSE]
            /\ UNCHANGED <<index, files, clock>>
       ELSE /\ index' = IndexDel(idx, name)
            /\ call' = this @@ [ret |-> TRUE, FileNotFoundError |-> FALSE]
            /\ UNCHANGED <<files, clock>>

delete_client(name) ==
    /\ call.op = "idle"
    /\ LET idx == load_index
           this == [op |-> "delete", arg |-> name]
       IN
       IF ~InIndex(idx, name)
       THEN /\ call' = this @@ [ret |-> FALSE]
            /\ UNCHANGED <<index, files, clock>>
       ELSE LET filename == Lookup(idx, name) IN
            /\ files' = remove(files, filename)
            /\ index' = IndexDel(idx, name)
            /\ call' = this @@ [ret |-> TRUE,
                                FileNotFoundError |->
                                    filename \notin DOMAIN files]
            /\ UNCHANGED clock

\* The process ends (sys.exit(main())); the next run starts from the disk
exit ==
    /\ call.op # "idle"
    /\ call' = Idle
    /\ UNCHANGED <<index, files, clock>>

\* createLog is a history variable: the program does not keep it, and the
\* specification Spec leaves it empty; its commands run one at a time
NoLog == UNCHANGED <<createLog, procs>>

\* What a step adds to the history variable
Log ==
    /\ createLog' =
          IF call'.op = "create" /\ call'.ret = TRUE
          THEN IF createLog = Void THEN Void
               ELSE Append(createLog,
                           [name |-> call'.arg,
                            at |-> files'[generate_filename(call'.arg)]
                                      .created_at])
          ELSE IF call'.op = "delete" /\ call'.ret = TRUE THEN Void
          ELSE createLog
    /\ UNCHANGED procs

\* One step of the program: a process runs one command, or ends
Next ==
    \/ \E n \in Names, o \in Orders : create_client(n, o[1], o[2]) /\ NoLog
    \/ \E n \in Names, s \in Services \cup {NoneStr},
                     x \in Notes \cup {NoneStr} :
          update_client(n, s, x) /\ NoLog
    \/ \E n \in Names : consult_client(n) /\ NoLog
    \/ list_clients /\ NoLog
    \/ \E q \in Queries : search_clients(q) /\ NoLog
    \/ \E n \in Names : delete_client(n) /\ NoLog
    \/ exit /\ NoLog

Spec == Init /\ [][Next]_vars

\* The same steps, with the history variable kept
NextLog ==
    \/ \E n \in Names, o \in Orders : create_client(n, o[1], o[2]) /\ Log
    \/ \E n \in Names, s \in Services \cup {NoneStr},
                     x \in Notes \cup {NoneStr} :
          update_client(n, s, x) /\ Log
    \/ \E n \in Names : consult_client(n) /\ Log
    \/ list_clients /\ Log
    \/ \E q \in Queries : search_clients(q) /\ Log
    \/ \E n \in Names : delete_client(n) /\ Log
    \/ exit /\ Log

SpecLog == Init /\ [][NextLog]_vars

---------------------------------------------------------------------------
(* Runs in which the disk fails: the write of the record file in           *)
(* create_client, or os.remove in delete_client for a reason other than    *)
(* the file being missing.  Neither call is inside a try that catches the  *)
(* error, so the exception leaves the method: the call has no return       *)
(* value, and `raised` names the exception.                                *)

\* Mutant of create_client_OSError: the index is saved before the record
\* file is written
create_client_OSError_index_first(name, service, notes) ==
    /\ call.op = "idle"
    /\ LET idx == load_index
           filename == generate_filename(name)
       IN  /\ ~InIndex(idx, name)
           /\ index' = IndexPut(idx, name, filename)
           /\ \/ files' = files
              \/ files' = save_client_data(files, filename, Corrupt)
           /\ TotalEntries(files') <= MaxEntries
           /\ \E t1 \in Now(clock) : \E t2 \in Now(t1) : \E t3 \in Now(t2) :
                 clock' = t3
           /\ call' = [op |-> "create", arg |-> name, raised |-> "OSError"]

\* create_client when _save_client_data raises: the file could not be
\* opened and is as it was, or was truncated and only partly written; the
\* lines after the call are not reached
create_client_OSError(name, service, notes) ==
    /\ call.op = "idle"
    /\ LET idx == load_index
           filename == generate_filename(name)
       IN  /\ ~InIndex(idx, name)
           /\ \/ files' = files
              \/ files' = save_client_data(files, filename, Corrupt)
           /\ TotalEntries(files') <= MaxEntries
           /\ \E t1 \in Now(clock) : \E t2 \in Now(t1) : \E t3 \in Now(t2) :
                 clock' = t3
           /\ call' = [op |-> "create", arg |-> name, raised |-> "OSError"]
           /\ UNCHANGED index

\* delete_client when os.remove raises an OSError that is not
\* FileNotFoundError: nothing was removed, and the lines after the try are
\* not reached
delete_client_OSError(name) ==
    /\ call.op = "idle"
    /\ LET idx == load_index
       IN  /\ InIndex(idx, name)
           /\ call' = [op |-> "delete", arg |-> name, raised |-> "OSError"]
           /\ UNCHANGED <<index, files, clock>>

NextIO ==
    \/ Next
    \/ \E n \in Names, o \in Orders :
          create_client_OSError(n, o[1], o[2]) /\ NoLog
    \/ \E n \in Names : delete_client_OSError(n) /\ NoLog

SpecIO == Init /\ [][NextIO]_vars

---------------------------------------------------------------------------
(* Invocations of create that run at the same time.  Each is a process     *)
(* that executes create_client; nothing locks the index file or the        *)
(* record files, so the processes interleave between two accesses to the   *)
(* disk: _load_index, _save_client_data, _save_index.                      *)

\* A process starts `create --name name --service service --notes notes`;
\* each process runs one invocation
Invoke(p, name, service, notes) ==
    /\ procs[p].pc = "idle"
    /\ procs' = [procs EXCEPT ![p] =
                    [pc |-> "load_index", name |-> name, service |-> service,
                     notes |-> notes, idx |-> <<>>, ret |-> FALSE]]
    /\ UNCHANGED <<index, files, clock, call, createLog>>

\* index = self._load_index()
LoadIndex(p) ==
    /\ procs[p].pc = "load_index"
    /\ procs' = [procs EXCEPT ![p].idx = load_index, ![p].pc = "check"]
    /\ UNCHANGED <<index, files, clock, call, createLog>>

\* The check of the loaded index and, for a new name, the build and the
\* write of the record file
CheckAndWrite(p) ==
    /\ procs[p].pc = "check"
    /\ LET me == procs[p] IN
       IF InIndex(me.idx, me.name)
       THEN /\ procs' = [procs EXCEPT ![p].pc = "done", ![p].ret = FALSE,
                                      ![p].idx = <<>>]
            /\ UNCHANGED <<index, files, clock, call, createLog>>
       ELSE \E t1 \in Now(clock) : \E t2 \in Now(t1) : \E t3 \in Now(t2) :
            LET filename == generate_filename(me.name)
                client_data ==
                    [name |-> me.name,
                     service |-> me.service,
                     notes |-> me.notes,
                     created_at |-> isoformat(t1),
                     updated_at |-> isoformat(t2),
                     history |-> << [action |-> "created",
                                     service |-> me.service,
                                     notes |-> me.notes,
                                     timestamp |-> isoformat(t3)] >>]
            IN  /\ files' = save_client_data(files, filename, client_data)
                /\ TotalEntries(files') <= MaxEntries
                /\ clock' = t3
                /\ procs' = [procs EXCEPT ![p].pc = "save_index"]
                /\ UNCHANGED <<index, call, createLog>>

\* Mutant of SaveIndex: the name is put into the index as it is on the disk
\* now, not into the copy loaded earlier
SaveIndexReloaded(p) ==
    /\ procs[p].pc = "save_index"
    /\ LET me == procs[p] IN
       index' = IndexPut(IndexDel(load_index, me.name), me.name,
                         generate_filename(me.name))
    /\ procs' = [procs EXCEPT ![p].pc = "done", ![p].ret = TRUE,
                              ![p].idx = <<>>]
    /\ UNCHANGED <<files, clock, call, createLog>>

\* index[name] = filename on the loaded copy, self._save_index(index) and
\* return True
SaveIndex(p) ==
    /\ procs[p].pc = "save_index"
    /\ LET me == procs[p] IN
       index' = IndexPut(me.idx, me.name, generate_filename(me.name))
    /\ procs' = [procs EXCEPT ![p].pc = "done", ![p].ret = TRUE,
                              ![p].idx = <<>>]
    /\ UNCHANGED <<files, clock, call, createLog>>

NextConc ==
    \/ \E p \in Procs, n \in Names, o \in Orders : Invoke(p, n, o[1], o[2])
    \/ \E p \in Procs : LoadIndex(p)
    \/ \E p \in Procs : CheckAndWrite(p)
    \/ \E p \in Procs : SaveIndex(p)

SpecConc == Init /\ [][NextConc]_vars

---------------------------------------------------------------------------
(* Vocabulary of the properties.                                           *)

\* The keys of the persisted index
Keys == { index[i].name : i \in DOMAIN index }

\* The filename the persisted index gives for a key
FileOf(n) == index[CHOOSE i \in DOMAIN index : index[i].name = n].filename

\* The record file of key n exists (and so loads)
HasRecord(n) == n \in Keys /\ FileOf(n) \in DOMAIN files

\* The record the index leads to for key n
RecordOf(n) == files[FileOf(n)]

IsPrefix(a, b) == Len(a) <= Len(b) /\ SubSeq(b, 1, Len(a)) = a

\* A step in which a process runs the command `op` on the client `n`
Ran(op, n) == call.op = "idle" /\ call'.op = op /\ call'.arg = n

---------------------------------------------------------------------------
(* C1 -- Index/record consistency: every key n of the index maps to a      *)
(* record file that exists, loads, and whose `name` field equals n, after  *)
(* any sequence of completed operations, also for distinct names that      *)
(* derive the same filename.  The code breaks it: a second name with the   *)
(* same derived filename overwrites the first one's file.                  *)

C1_IndexRecordConsistency ==
    \A n \in Keys : HasRecord(n) /\ RecordOf(n).name = n

---------------------------------------------------------------------------
(* C2 -- History is append-only: for every name n in the index before and  *)
(* after a step, the history of n's record before the step is a prefix of  *)
(* its history after the step.  The code breaks it when another name with  *)
(* the same derived filename is created or deleted.                        *)

C2_HistoryAppendOnly ==
    [][ \A n \in Names :
          (HasRecord(n) /\ n \in Keys')
          => /\ HasRecord(n)'
             /\ IsPrefix(RecordOf(n).history, RecordOf(n)'.history) ]_vars

---------------------------------------------------------------------------
(* C3 -- Create uniqueness: create(n, ...) on a name that is no key of the *)
(* index returns True and raises count() by exactly 1; a create(n, ...) on *)
(* a name that is a key returns False and leaves the index and every       *)
(* record file unchanged; and a key stays a key until delete(n) removes    *)
(* it, so every create(n) after a successful one, with no delete(n) in     *)
(* between, is of the second kind.                                         *)

C3_CreateUniqueness ==
    [][ \A n \in Names :
          /\ (Ran("create", n) /\ n \notin Keys)
             => /\ call'.ret = TRUE
                /\ get_client_count' = get_client_count + 1
                /\ n \in Keys'
          /\ (Ran("create", n) /\ n \in Keys)
             => /\ call'.ret = FALSE
                /\ index' = index
                /\ files' = files
          /\ (n \in Keys /\ ~Ran("delete", n)) => n \in Keys' ]_vars

\* A create was refused because the name, created earlier, is still a key
C3_Witness ==
    /\ call.op = "create"
    /\ call.ret = FALSE
    /\ call.arg \in Keys
    /\ get_client_count = 2

---------------------------------------------------------------------------
(* C4 -- Delete then lookup: a delete(n) that returns True lowers count()  *)
(* by exactly 1 and removes the key n; while n is no key, consult(n)       *)
(* returns None and update(n, ...) returns False; and n becomes a key      *)
(* again only by a create(n) that returns True.                            *)

C4_DeleteThenLookup ==
    [][ \A n \in Names :
          /\ (Ran("delete", n) /\ call'.ret = TRUE)
             => /\ get_client_count' = get_client_count - 1
                /\ n \notin Keys'
          /\ (Ran("consult", n) /\ n \notin Keys) => call'.ret = None
          /\ (Ran("update", n) /\ n \notin Keys) => call'.ret = FALSE
          /\ (n \notin Keys /\ n \in Keys')
             => (Ran("create", n) /\ call'.ret = TRUE) ]_vars

\* A delete returned True and removed its key; another client remains
C4_Witness ==
    /\ call.op = "delete"
    /\ call.ret = TRUE
    /\ call.arg \notin Keys
    /\ get_client_count = 1

---------------------------------------------------------------------------
(* C5 -- Update no-op: update(n, service, notes) on an indexed record      *)
(* whose file loads, with every supplied (non-None) field equal to the     *)
(* stored value (both may be None), leaves the record file, and the rest   *)
(* of the store, unchanged and returns True.                               *)

C5_UpdateNoOp ==
    [][ \A n \in Names, s \in Services \cup {NoneStr},
           x \in Notes \cup {NoneStr} :
          ( /\ Ran("update", n)
            /\ HasRecord(n)
            /\ (s = NoneStr \/ s = RecordOf(n).service)
            /\ (x = NoneStr \/ x = RecordOf(n).notes)
            /\ update_client(n, s, x) )
          => (files' = files /\ index' = index /\ call'.ret = TRUE) ]_vars

\* An update returned True on a record that holds no "updated" entry
C5_Witness ==
    /\ call.op = "update"
    /\ call.ret = TRUE
    /\ HasRecord(call.arg)
    /\ Len(RecordOf(call.arg).history) = 1

---------------------------------------------------------------------------
(* C6 -- Update history shape: an update(n, service, notes) that changes   *)
(* at least one stored field appends exactly one history entry, with       *)
(* action "updated", whose `service` key is present iff service was        *)
(* supplied and whose `notes` key is present iff notes was supplied, each  *)
(* with the supplied value, even when it equals the stored one.            *)

C6_UpdateHistoryShape ==
    [][ \A n \in Names, s \in Services \cup {NoneStr},
           x \in Notes \cup {NoneStr} :
          ( /\ Ran("update", n)
            /\ HasRecord(n)
            /\ \/ (s # NoneStr /\ s # RecordOf(n).service)
               \/ (x # NoneStr /\ x # RecordOf(n).notes)
            /\ update_client(n, s, x) )
          => LET old == RecordOf(n).history
                 new == RecordOf(n)'.history
                 e   == new[Len(new)]
             IN  /\ Len(new) = Len(old) + 1
                 /\ IsPrefix(old, new)
                 /\ e.action = "updated"
                 /\ DOMAIN e \subseteq
                       {"action", "timestamp", "service", "notes"}
                 /\ "service" \in DOMAIN e <=> s # NoneStr
                 /\ "notes" \in DOMAIN e <=> x # NoneStr
                 /\ s # NoneStr => e.service = s
                 /\ x # NoneStr => e.notes = x ]_vars

\* An update changed the service and was given the notes the record had:
\* its entry carries both
C6_Witness ==
    /\ call.op = "update"
    /\ HasRecord(call.arg)
    /\ LET h == RecordOf(call.arg).history
           e == h[Len(h)]
       IN  /\ Len(h) = 2
           /\ e.action = "updated"
           /\ DOMAIN e = {"action", "timestamp", "service", "notes"}
           /\ e.service # h[1].service
           /\ e.notes = h[1].notes

---------------------------------------------------------------------------
(* C7 -- Consult side effect: a consult(n) on an indexed record whose file *)
(* loads appends exactly one entry, with action "consulted", to that       *)
(* record's history, leaves its name, service, notes, created_at and       *)
(* updated_at and the whole index unchanged, and returns the record with   *)
(* the new entry.  Holding of every step, it gives k entries for k         *)
(* consecutive consults.                                                   *)

---------------------------------------------------------------------------
(* C8 -- List ordering: if clients with distinct names are created at      *)
(* strictly increasing timestamps and none is deleted, list() returns      *)
(* exactly one entry per client, the most recently created first.  The     *)
(* code breaks it for names that derive the same filename.                 *)

C8_ListOrdering ==
    ( /\ call.op = "list"
      /\ createLog # Void
      /\ \A i \in 1..(Len(createLog) - 1) :
            StrLess(createLog[i].at, createLog[i + 1].at) )
    => [i \in DOMAIN call.ret |-> call.ret[i].name]
       = [i \in DOMAIN createLog |->
             createLog[Len(createLog) + 1 - i].name]

---------------------------------------------------------------------------
(* C9 -- List and search are read-only: list() and search(q), for every q, *)
(* leave the index and every record file unchanged; no "consulted" entry   *)
(* is appended.                                                            *)

C9_ListSearchReadOnly ==
    [][ (call.op = "idle" /\ call'.op \in {"list", "search"})
        => (index' = index /\ files' = files) ]_vars

\* A list returned two clients (and the store is as it was)
C9_Witness ==
    /\ call.op = "list"
    /\ Len(call.ret) = 2
    /\ \A f \in DOMAIN files : Len(files[f].history) = 1

---------------------------------------------------------------------------
(* C10 -- Search matching: search(q) is exactly the subsequence of list()  *)
(* (same order, same entries) of the entries for which lowercase(q) is a   *)
(* substring of the lowercased name, service or notes; so search("") is    *)
(* list().  The store is the same before and after the search (C9), so    *)
(* list() is taken in the state the search returns in.                     *)

\* a occurs in b as a contiguous block
IsSubstring(a, b) ==
    \E i \in 0..Len(b) : \E j \in i..Len(b) : SubSeq(b, i + 1, j) = a

Matches(q, c) ==
    \/ IsSubstring(lower(q), lower(c.name))
    \/ IsSubstring(lower(q), lower(c.service))
    \/ IsSubstring(lower(q), lower(c.notes))

C10_SearchMatching ==
    call.op = "search"
    => LET listed == ListClients(index, files)
       IN  /\ call.ret = SelectSeq(listed, LAMBDA c : Matches(call.arg, c))
           /\ call.arg = <<>> => call.ret = listed

\* A search returned one of the two listed clients
C10_Witness ==
    /\ call.op = "search"
    /\ Len(call.ret) = 1
    /\ Len(ListClients(index, files)) = 2

---------------------------------------------------------------------------
(* C11 -- Filename collision: a create(n2, ...) of a name that is no key,  *)
(* while a distinct key n1 maps to the filename n2 derives, returns True;  *)
(* the shared file then holds n2's fresh record (name n2, the service and  *)
(* notes given, a history of the one "created" entry), so n1's record is   *)
(* gone; and n1 and n2 are both keys mapped to that same filename.         *)

C11_FilenameCollision ==
    [][ \A n2 \in Names :
          (Ran("create", n2) /\ n2 \notin Keys)
          => LET shared == generate_filename(n2)
             IN  \A n1 \in Keys :
                    (n1 # n2 /\ FileOf(n1) = shared)
                    => /\ call'.ret = TRUE
                       /\ n1 \in Keys' /\ n2 \in Keys'
                       /\ FileOf(n1)' = shared
                       /\ FileOf(n2)' = shared
                       /\ HasRecord(n2)'
                       /\ LET r == RecordOf(n2)'
                          IN  /\ r.name = n2
                              /\ Len(r.history) = 1
                              /\ r.history[1].action = "created"
                              /\ RecordOf(n1)' = r
                              /\ \A o \in Orders :
                                    create_client(n2, o[1], o[2])
                                    => (r.service = o[1] /\ r.notes = o[2])
      ]_vars

\* A create returned True and the file it wrote is also the file of another
\* key, whose record it replaced
C11_Witness ==
    /\ call.op = "create"
    /\ call.ret = TRUE
    /\ HasRecord(call.arg)
    /\ RecordOf(call.arg).name = call.arg
    /\ \E n1 \in Keys : n1 # call.arg /\ FileOf(n1) = FileOf(call.arg)

---------------------------------------------------------------------------
(* C12 -- Not-found outcomes change nothing: update(n, ...) returns False  *)
(* and consult(n) returns None when n is no key of the index, and also     *)
(* when n is a key whose record file is missing; delete(n) returns False   *)
(* when n is no key; and each of these steps leaves the index and every    *)
(* record file as they were.                                               *)

C12_NotFoundChangesNothing ==
    [][ \A n \in Names :
          /\ (Ran("update", n) /\ ~HasRecord(n))
             => (call'.ret = FALSE /\ index' = index /\ files' = files)
          /\ (Ran("consult", n) /\ ~HasRecord(n))
             => (call'.ret = None /\ index' = index /\ files' = files)
          /\ (Ran("delete", n) /\ n \notin Keys)
             => (call'.ret = FALSE /\ index' = index /\ files' = files)
      ]_vars

\* A consult of a key whose record file is missing returned None
C12_Witness ==
    /\ call.op = "consult"
    /\ call.arg \in Keys
    /\ ~HasRecord(call.arg)
    /\ call.ret = None

---------------------------------------------------------------------------
(* C13 -- Delete tolerates a missing file: delete(n) of a key n returns    *)
(* True and removes exactly the entry of n from the index, the other       *)
(* entries staying as they were and in their order, whether or not the     *)
(* record file of n exists.                                                *)

C13_DeleteToleratesMissingFile ==
    [][ \A n \in Names :
          (Ran("delete", n) /\ n \in Keys)
          => /\ call'.ret = TRUE
             /\ Keys' = Keys \ {n}
             /\ index' = SelectSeq(index, LAMBDA e : e.name # n)
             /\ Len(index') = Len(index) - 1 ]_vars

\* A delete returned True although os.remove found no file for the key
C13_Witness ==
    /\ call.op = "delete"
    /\ call.ret = TRUE
    /\ call.FileNotFoundError

---------------------------------------------------------------------------
(* C14 -- Exactly one created entry: every record file of the store has a  *)
(* non-empty history whose first entry has action "created" and carries    *)
(* the service and notes that were given to the create that wrote the      *)
(* file, and no later entry has action "created".  Stated of every step:   *)
(* the files are so after it, a create writes the entry with its           *)
(* arguments, and any other step keeps the first entry of every file.      *)

OneCreatedEntry(r) ==
    /\ Len(r.history) >= 1
    /\ r.history[1].action = "created"
    /\ {"service", "notes"} \subseteq DOMAIN r.history[1]
    /\ \A i \in 2..Len(r.history) : r.history[i].action # "created"

C14_OneCreatedEntry ==
    [][ /\ \A f \in DOMAIN files' : OneCreatedEntry(files'[f])
        /\ \A n \in Names, o \in Orders :
              ( /\ Ran("create", n)
                /\ call'.ret = TRUE
                /\ create_client(n, o[1], o[2]) )
              => LET e == files'[generate_filename(n)].history[1]
                 IN  e.service = o[1] /\ e.notes = o[2]
        /\ \A f \in DOMAIN files \cap DOMAIN files' :
              (call'.op = "create" /\ f = generate_filename(call'.arg))
              \/ files'[f].history[1] = files[f].history[1] ]_vars

\* A record was updated to another service: its first entry is still the
\* "created" one, with the service given to create
C14_Witness ==
    \E f \in DOMAIN files :
       /\ Len(files[f].history) = 2
       /\ files[f].history[2].action = "updated"
       /\ files[f].history[1].action = "created"
       /\ files[f].history[1].service # files[f].service

---------------------------------------------------------------------------
(* C15 -- Creation timestamps are one instant: right after a create that   *)
(* returned True, the created_at and the updated_at of the record and the  *)
(* timestamp of its single "created" entry are equal, also when the clock  *)
(* advances while create runs.  The code breaks it: it reads the clock     *)
(* three times.                                                            *)

C15_CreationOneInstant ==
    (call.op = "create" /\ call.ret = TRUE)
    => LET r == files[generate_filename(call.arg)]
       IN  /\ Len(r.history) = 1
           /\ r.created_at = r.updated_at
           /\ r.history[1].timestamp = r.created_at

---------------------------------------------------------------------------
(* C16 -- Record write failure never leaks into the index: a create whose  *)
(* record-file write failed, and a delete whose os.remove failed for a     *)
(* reason other than the file being missing, do not return (the exception  *)
(* reaches the caller) and leave the persisted index unchanged.            *)

C16_WriteFailureKeepsIndex ==
    [][ \A n \in Names :
          /\ (Ran("create", n) /\ "raised" \in DOMAIN call')
             => /\ "ret" \notin DOMAIN call'
                /\ index' = index
                /\ n \notin Keys'
          /\ (Ran("delete", n) /\ "raised" \in DOMAIN call')
             => /\ "ret" \notin DOMAIN call'
                /\ index' = index
                /\ n \in Keys' ]_vars

\* A create raised after its write had truncated the record file: the file
\* is there, unreadable, and the name is no key
C16_Witness ==
    /\ call.op = "create"
    /\ "raised" \in DOMAIN call
    /\ call.arg \notin Keys
    /\ generate_filename(call.arg) \in DOMAIN files
    /\ files[generate_filename(call.arg)] = Corrupt

---------------------------------------------------------------------------
(* C17 -- Unlocked read-modify-write loses updates: an invocation of       *)
(* create saves the index it loaded plus its own name, so every key that   *)
(* another invocation saved after that load is dropped from the persisted  *)
(* index; it returns True all the same.  Hence the state of the witness:   *)
(* two invocations for distinct new names with distinct filenames both     *)
(* returned True, the index holds only one of the names and the record     *)
(* file of the other is referenced by no key.                              *)

C17_LostUpdate ==
    [][ \A p \in Procs :
          (procs[p].pc = "save_index" /\ procs'[p].pc = "done")
          => LET me == procs[p]
                 loaded == { me.idx[i].name : i \in DOMAIN me.idx }
             IN  /\ procs'[p].ret = TRUE
                 /\ Keys' = loaded \cup {me.name}
                 /\ \A k \in Keys \ (loaded \cup {me.name}) : k \notin Keys'
      ]_vars

\* Both invocations returned True; one name is a key, the other is not and
\* its record file is an orphan
C17_Witness ==
    LET a == procs["p"]
        b == procs["q"]
    IN  /\ a.pc = "done" /\ a.ret = TRUE
        /\ b.pc = "done" /\ b.ret = TRUE
        /\ a.name # b.name
        /\ generate_filename(a.name) # generate_filename(b.name)
        /\ a.name \in Keys
        /\ b.name \notin Keys
        /\ generate_filename(b.name) \in DOMAIN files
        /\ files[generate_filename(b.name)].name = b.name
        /\ \A i \in DOMAIN index :
              index[i].filename # generate_filename(b.name)

---------------------------------------------------------------------------
(* C18 -- Per-record isolation: for two keys n and m of the index whose    *)
(* derived filenames differ, a create, update, consult or delete applied   *)
(* to n leaves the index entry of m and the record file of m (present or   *)
(* not, and all it holds) unchanged.  The index gives every key the       *)
(* filename derived from it, so the filenames are read from the index.     *)

---------------------------------------------------------------------------
(* C19 -- No orphan files: after any sequence of create, update, consult   *)
(* and delete operations that ran to completion without I/O failure, also  *)
(* with names that derive the same filename, every record file of the      *)
(* clients directory is the filename of at least one key of the index.     *)

C19_NoOrphanFiles ==
    \A f \in DOMAIN files : \E i \in DOMAIN index : index[i].filename = f

\* A key that shared its file with another key was deleted: the file went
\* with it and the other key is left without a file, while the file of a
\* third key is still there
C19_Witness ==
    /\ call.op = "delete"
    /\ call.ret = TRUE
    /\ \E n \in Keys : FileOf(n) = generate_filename(call.arg) /\ ~HasRecord(n)
    /\ \E m \in Keys : HasRecord(m)

=============================================================================
